---- MODULE Spec2Model ----
(***************************************************************************)
(* A model of the uusid identifier generator (index.js): the timestamp     *)
(* sequencer, the canonical encoder and decoder, the generation-time       *)
(* window policy, the rate metrics and the worker pool.                    *)
(*                                                                         *)
(* JavaScript numbers beyond 32 bits (millisecond clocks, 100 ns tick      *)
(* counts) are held as four 16-bit limbs, least significant first, and the *)
(* arithmetic the code does on them is carried out limb by limb, with the  *)
(* rounding to 53 significant bits that an IEEE double applies.  Text is a *)
(* sequence of one-character strings.                                      *)
(***************************************************************************)
EXTENDS Integers, Sequences, FiniteSets, TLC

\* null; as a prefix it is also the empty string, which the constructor turns into null
NULL == <<>>

(***************************************************************************)
(* Numbers                                                                 *)
(***************************************************************************)
Limb == 2^16

Zero == <<0, 0, 0, 0>>

Small(k) == <<k % Limb, k \div Limb, 0, 0>>

AddN(x, y) ==
    LET s1 == x[1] + y[1]
        s2 == x[2] + y[2] + (s1 \div Limb)
        s3 == x[3] + y[3] + (s2 \div Limb)
        s4 == x[4] + y[4] + (s3 \div Limb)
    IN  <<s1 % Limb, s2 % Limb, s3 % Limb, s4 % Limb>>

\* x - y for x >= y
SubN(x, y) ==
    LET d1 == x[1] - y[1]
        d2 == x[2] - y[2] - (IF d1 < 0 THEN 1 ELSE 0)
        d3 == x[3] - y[3] - (IF d2 < 0 THEN 1 ELSE 0)
        d4 == x[4] - y[4] - (IF d3 < 0 THEN 1 ELSE 0)
    IN  <<d1 % Limb, d2 % Limb, d3 % Limb, d4 % Limb>>

\* x * k for 0 <= k <= 10000
MulSmall(x, k) ==
    LET p1 == x[1] * k
        p2 == x[2] * k + (p1 \div Limb)
        p3 == x[3] * k + (p2 \div Limb)
        p4 == x[4] * k + (p3 \div Limb)
    IN  <<p1 % Limb, p2 % Limb, p3 % Limb, p4 % Limb>>

\* quotient and remainder of x by k, 0 < k <= 10000
DivSmall(x, k) ==
    LET c4 == x[4]
        c3 == (c4 % k) * Limb + x[3]
        c2 == (c3 % k) * Limb + x[2]
        c1 == (c2 % k) * Limb + x[1]
    IN  [q |-> <<c1 \div k, c2 \div k, c3 \div k, c4 \div k>>, r |-> c1 % k]

LtN(x, y) ==
    \/ x[4] < y[4]
    \/ x[4] = y[4] /\ x[3] < y[3]
    \/ x[4] = y[4] /\ x[3] = y[3] /\ x[2] < y[2]
    \/ x[4] = y[4] /\ x[3] = y[3] /\ x[2] = y[2] /\ x[1] < y[1]

LeN(x, y) == x = y \/ LtN(x, y)

BitLen16(v) == IF v = 0 THEN 0 ELSE CHOOSE k \in 1..16 : 2^(k-1) <= v /\ v < 2^k

BitLen(x) ==
    IF x[4] > 0 THEN 48 + BitLen16(x[4])
    ELSE IF x[3] > 0 THEN 32 + BitLen16(x[3])
    ELSE IF x[2] > 0 THEN 16 + BitLen16(x[2])
    ELSE BitLen16(x[1])

\* The IEEE double nearest to the integer x (round to nearest, ties to even):
\* what a JS Number holds after an arithmetic operation whose exact result is x.
\* x < 2^64, so at most 11 low bits are dropped and they all lie in limb 1.
ToDouble(x) ==
    LET e == BitLen(x) - 53 IN
    IF e <= 0 THEN x
    ELSE LET unit == 2^e
             rem  == x[1] % unit
             odd  == (x[1] \div unit) % 2 = 1
             down == SubN(x, Small(rem))
             up   == AddN(down, Small(unit))
         IN  IF 2 * rem < unit THEN down
             ELSE IF 2 * rem > unit THEN up
             ELSE IF odd THEN up ELSE down

(***************************************************************************)
(* Text                                                                    *)
(***************************************************************************)
HexDigits == <<"0", "1", "2", "3", "4", "5", "6", "7",
               "8", "9", "a", "b", "c", "d", "e", "f">>

UpperHexLetters == {"A", "B", "C", "D", "E", "F"}

LowerHexChars == {HexDigits[i] : i \in 1..16}

\* Number.prototype.toString(16).padStart(2, '0') of v < 2^8
Hex2(v) == <<HexDigits[((v \div 16) % 16) + 1], HexDigits[(v % 16) + 1]>>

\* Number.prototype.toString(16).padStart(4, '0') of v < 2^16
Hex4(v) == Hex2(v \div 256) \o Hex2(v % 256)

\* String.prototype.padStart(n, '0')
PadStart(s, n) == [i \in 1..(IF Len(s) < n THEN n - Len(s) ELSE 0) |-> "0"] \o s

UpperHex == <<"A", "B", "C", "D", "E", "F">>

HexTable ==
    [c \in LowerHexChars \cup UpperHexLetters |->
        IF c \in LowerHexChars THEN (CHOOSE i \in 1..16 : HexDigits[i] = c) - 1
        ELSE (CHOOSE i \in 1..6 : UpperHex[i] = c) + 9]

\* the value of a hexadecimal digit in either case, -1 for any other character
HexVal(c) == IF c \in DOMAIN HexTable THEN HexTable[c] ELSE -1

NaN == <<"NaN">>

IsNaN(x) == Len(x) # 4

\* the digits of s from position i on, appended to the value hi * 2^16 + lo
RECURSIVE ParseDigits(_, _, _, _)
ParseDigits(s, i, lo, hi) ==
    IF i > Len(s) \/ HexVal(s[i]) < 0 THEN <<lo, hi, 0, 0>>
    ELSE LET v == lo * 16 + HexVal(s[i]) IN
         ParseDigits(s, i + 1, v % Limb, (hi * 16 + (v \div Limb)) % Limb)

\* parseInt(s, 16) of a string of at most 8 characters without sign, blank or 0x:
\* the value of the longest prefix of hexadecimal digits, NaN when there is none
ParseInt16(s) == IF s = <<>> \/ HexVal(s[1]) < 0 THEN NaN ELSE ParseDigits(s, 1, 0, 0)

\* String.prototype.replace(new RegExp(escaped sep, 'g'), ''): every occurrence of
\* sep, found left to right, is dropped
RECURSIVE RemoveEach(_, _)
RemoveEach(s, sep) ==
    IF Len(sep) = 0 \/ Len(s) < Len(sep) THEN s
    ELSE IF SubSeq(s, 1, Len(sep)) = sep
         THEN RemoveEach(SubSeq(s, Len(sep) + 1, Len(s)), sep)
         ELSE <<s[1]>> \o RemoveEach(Tail(s), sep)

RemoveAll(s, sep) ==
    IF Len(sep) = 1 THEN SelectSeq(s, LAMBDA c : c # sep[1]) ELSE RemoveEach(s, sep)

(***************************************************************************)
(* Program constants                                                       *)
(***************************************************************************)
\* -(new Date('1582-10-15').getTime()) = 12219292800000 ms
uuidEpochBefore1970 == <<21504, 1691, 2845, 0>>

TicksPerMs == 10000

MaxSequence == 65535

ClockSeqMask == 16383

RateWindowMs == 10000

\* a JS value used as a condition: null and 0 are falsy
Truthy(x) == x # NULL /\ x # Zero

(***************************************************************************)
(* Timestamp sequencer (getTimestamp)                                      *)
(***************************************************************************)
\* (this.lastTimestamp + uuidEpoch) * 10000, the epoch added where the code
\* subtracts it; the Math.abs of line 91 then hides the sign
TimestampAddingEpoch(lastTimestamp) ==
    ToDouble(MulSmall(SubN(uuidEpochBefore1970, lastTimestamp), TicksPerMs))

\* (this.lastTimestamp - uuidEpoch) * 10000: the subtraction is exact, the
\* product is rounded to a double
TimestampOf(lastTimestamp) ==
    ToDouble(MulSmall(AddN(lastTimestamp, uuidEpochBefore1970), TicksPerMs))

\* the branch of getTimestamp that returns without waiting; now is Date.now()
Sequenced(self, now) ==
    IF now = self.lastTimestamp
    THEN [self EXCEPT !.sequenceCounter = self.sequenceCounter + 1]
    ELSE [self EXCEPT !.sequenceCounter = 0, !.lastTimestamp = now]

\* after the busy wait, lastTimestamp set and the counter left as it is
NotReset(self, now) == [self EXCEPT !.lastTimestamp = now]

\* after the busy wait: the counter restarts at the clock value read then
Restarted(self, now) == [self EXCEPT !.sequenceCounter = 0, !.lastTimestamp = now]

(***************************************************************************)
(* Rate metrics (updateMetrics).  rateSamples is the array of sample times *)
(* in run-length form: <<[t, n], ...>> stands for n copies of t, in order. *)
(***************************************************************************)
PushSample(samples, now) ==
    IF samples # <<>> /\ samples[Len(samples)].t = now
    THEN [samples EXCEPT ![Len(samples)].n = samples[Len(samples)].n + 1]
    ELSE Append(samples, [t |-> now, n |-> 1])

RECURSIVE MergeRuns(_)
MergeRuns(samples) ==
    IF Len(samples) < 2 THEN samples
    ELSE IF samples[1].t = samples[2].t
         THEN MergeRuns(<<[t |-> samples[1].t, n |-> samples[1].n + samples[2].n]>>
                        \o SubSeq(samples, 3, Len(samples)))
         ELSE <<samples[1]>> \o MergeRuns(Tail(samples))

RECURSIVE SampleCount(_)
SampleCount(samples) ==
    IF samples = <<>> THEN 0 ELSE samples[1].n + SampleCount(Tail(samples))

\* a filter that keeps every sample
AnyTime(time, now) == TRUE

\* time > now - 10000
NewerThanCutoff(time, now) == LtN(now, AddN(time, Small(RateWindowMs)))

\* rateSamples.filter(time => time > cutoff), line 424; the filtered list is
\* bound as a value so that it is computed once
KeepRecent(samples, now) ==
    CHOOSE kept \in {MergeRuns(recent) :
                        recent \in {SelectSeq(samples, LAMBDA r : NewerThanCutoff(r.t, now))}} : TRUE

\* Math.round(count / (timeSpan / 1000)) for 0 < timeSpan < 10000
RatePerSecond(count, timeSpan) == (2000 * count + timeSpan) \div (2 * timeSpan)

Max(a, b) == IF a > b THEN a ELSE b

updateMetrics(self, now) ==
    LET Measured(kept) ==
            LET len      == SampleCount(kept)
                first    == kept[1].t
                timeSpan == SubN(now, first)[1]
                rated    == len > 1 /\ LtN(first, now)
                rate     == IF rated THEN RatePerSecond(len - 1, timeSpan)
                            ELSE self.metrics.currentRate
            IN  [self EXCEPT !.metrics =
                    [totalGenerated |-> self.metrics.totalGenerated + 1,
                     rateSamples    |-> kept,
                     currentRate    |-> rate,
                     peakRate       |-> IF rated THEN Max(self.metrics.peakRate, rate)
                                        ELSE self.metrics.peakRate]]
    IN  CHOOSE updated \in {Measured(kept) :
                              kept \in {KeepRecent(PushSample(self.metrics.rateSamples, now), now)}} : TRUE

(***************************************************************************)
(* Canonical encoder (generate, lines 91-102) and decoder                  *)
(***************************************************************************)
\* h | 0x80 for a byte h
OrVariant(h) == IF h >= 128 THEN h ELSE h + 128

Join5(g1, g2, g3, g4, g5, sep) == g1 \o sep \o g2 \o sep \o g3 \o sep \o g4 \o sep \o g5

BuildId(self, timestamp, sequence) ==
    LET timeLow         == Hex4(timestamp[2]) \o Hex4(timestamp[1])
        timeMid         == Hex4(timestamp[3])
        timeHigh        == Hex4((timestamp[4] % 4096) + 4096)
        clockSeqWithSeq == (self.clockSeq + sequence) % 65536
        clockSeqHigh    == Hex2(OrVariant(clockSeqWithSeq \div 256))
        clockSeqLow     == Hex2(clockSeqWithSeq % 256)
        node            == PadStart(self.nodeId, 12)
        uuid            == Join5(timeLow, timeMid, timeHigh,
                                 clockSeqHigh \o clockSeqLow, node, self.separator)
    IN  IF self.prefix # NULL THEN self.prefix \o self.separator \o uuid ELSE uuid

Min(a, b) == IF a < b THEN a ELSE b

\* The double timestamp / 10000 (line 316) as whole milliseconds q and a fraction in
\* units of 2^-17 ms: a double whose integer part has n bits keeps 53 - n bits of
\* fraction, rounded to nearest, ties to even. timestamp < 2^60, so n <= 47; for
\* n < 36 (before the year 1583) the fraction is kept to 17 bits.
DivToDouble(timestamp, k) ==
    LET d      == DivSmall(timestamp, k)
        bits   == Min(17, 53 - BitLen(d.q))
        scaled == d.r * 2^bits
        down   == scaled \div k
        rem    == scaled % k
        n      == IF 2 * rem > k \/ (2 * rem = k /\ down % 2 = 1) THEN down + 1 ELSE down
    IN  IF n = 2^bits THEN [q |-> AddN(d.q, Small(1)), frac |-> 0]
        ELSE [q |-> d.q, frac |-> n * 2^(17 - bits)]

\* The value extractTimestamp returns: (neg ? -ms : ms) + frac / 2^17 milliseconds;
\* thrown |-> TRUE when it throws. Adding uuidEpoch to the quotient is exact for a
\* result that is not negative, which has no more integer bits than the quotient.
extractTimestamp(self, id) ==
    LET cleanId == RemoveAll(RemoveAll(id, self.separator), <<".">>) IN
    IF Len(cleanId) < 32 THEN [thrown |-> TRUE]
    ELSE LET timeLow  == ParseInt16(SubSeq(cleanId, 1, 8))
             timeMid  == ParseInt16(SubSeq(cleanId, 9, 12))
             high     == ParseInt16(SubSeq(cleanId, 13, 16))
             timeHigh == IF IsNaN(high) THEN 0 ELSE high[1] % 4096
         IN  IF IsNaN(timeLow) \/ IsNaN(timeMid) THEN [thrown |-> FALSE, nan |-> TRUE]
             ELSE LET timestamp == ToDouble(<<timeLow[1], timeLow[2], timeMid[1], timeHigh>>)
                      ms        == DivToDouble(timestamp, TicksPerMs)
                      neg       == LtN(ms.q, uuidEpochBefore1970)
                  IN  [thrown |-> FALSE, nan |-> FALSE, neg |-> neg,
                       ms   |-> IF neg THEN SubN(uuidEpochBefore1970, ms.q)
                                ELSE SubN(ms.q, uuidEpochBefore1970),
                       frac |-> ms.frac]

(***************************************************************************)
(* Bounds and input sets                                                   *)
(***************************************************************************)
\* clock readings per era: the era's first millisecond and MaxTick more
MaxTick == 1

\* generate() calls made in a behaviour
MaxCalls == 2

\* times the clock is set back in a behaviour
MaxRegressions == 1

\* WorkerPool: ids asked of a generateBatch call, workers, batch size
MaxCount == 3

MaxWorkers == 2

MaxBatchSize == 2

\* envelopes made in a behaviour
MaxSealed == 2

\* 2026-11-02T00:00:00Z = 1793577600000 ms and 2039-09-18T00:00:00Z =
\* 2199916800000 ms; from 2039-06-20 on the tick count exceeds 2^57
Era2026 == <<17408, 39310, 417, 0>>

Era2039 == <<26624, 13634, 512, 0>>

Eras == {Era2026, Era2039}

\* the clock readings of a behaviour stay within the era it starts in
EraOf(t) == IF LtN(t, Era2039) THEN Era2026 ELSE Era2039

ClockValuesOf(era) == {AddN(era, Small(k)) : k \in 0..MaxTick}

ClockValues == UNION {ClockValuesOf(era) : era \in Eras}

LowerNode == <<"a", "1", "b", "2", "c", "3", "d", "4", "e", "5", "f", "6">>

UpperNode == <<"A", "1", "B", "2", "C", "3", "D", "4", "E", "5", "F", "6">>

Dash == <<"-">>

Underscore == <<"_">>

UsrPrefix == <<"u", "s", "r">>

\* a window limit inside the first era: new Date(options.validAfter).getTime()
WindowTime == AddN(Era2026, Small(1))

\* calls an instance may already have made, all within its first millisecond,
\* when a behaviour starts: none, one, half the counter's range, its whole range
BurstStarts == {0, 1, MaxSequence \div 2 + 1, MaxSequence + 1}

(***************************************************************************)
(* State                                                                   *)
(***************************************************************************)
VARIABLES
    clock,        \* what Date.now() returns
    regressions,  \* times the clock has been set back so far
    self,         \* the UUSIDGenerator instance
    pc,           \* where the running generate() call stands, "idle" between calls
    local,        \* generate()'s locals: timestamp, sequence
    entry,        \* the instance as it was when the running (or last) call began
    result,       \* what the last finished call returned or threw
    issued,       \* every id returned so far, in order
    burst,        \* the ids returned before the behaviour starts: n ids at time ts
    calls,        \* generate() calls begun
    pool,         \* the WorkerPool instance, NULL where there is none
    job,          \* the pool's generateBatch call: running, resolved, or none yet;
                  \* log is its generate() calls in the order made: worker, chunk, id
    derived       \* the calls made so far of the methods that derive texts: fromContent,
                  \* encrypt and decrypt, hierarchical and parseHierarchy

vars == <<clock, regressions, self, pc, local, entry, result, issued, burst, calls, pool, job, derived>>

\* the state of the single generator, and the state of the pool
genVars == <<self, pc, local, entry, result, issued, burst, calls, derived>>

poolVars == <<pool, job>>

NoDerived == [content |-> <<>>, sealed |-> <<>>, tree |-> <<>>, twin |-> <<>>, uusid |-> <<>>]

NoJob == [state |-> "none", count |-> 0, i |-> 0, batch |-> <<>>, batches |-> <<>>,
          ids |-> <<>>, log |-> <<>>]

\* constructor, lines 8-27; clockSeq is options.clockSeq or generateClockSeq()
New(nodeId, clockSeq, prefix, separator, validAfter, validBefore) ==
    [nodeId          |-> nodeId,
     clockSeq        |-> clockSeq,
     lastTimestamp   |-> Zero,
     sequenceCounter |-> 0,
     prefix          |-> prefix,
     separator       |-> separator,
     validAfter      |-> validAfter,
     validBefore     |-> validBefore,
     secretKey       |-> NULL,
     metrics         |-> [totalGenerated |-> 0, rateSamples |-> <<>>,
                          currentRate |-> 0, peakRate |-> 0]]

\* the instance after n > 0 calls at one clock reading t, none rejected: each call
\* but the first found now = lastTimestamp and counted up; every sample is t, so
\* the time span is 0 and no rate was computed
AfterBurst(fresh, t, n) ==
    [fresh EXCEPT !.lastTimestamp = t,
                  !.sequenceCounter = n - 1,
                  !.metrics = [totalGenerated |-> n, rateSamples |-> <<[t |-> t, n |-> n]>>,
                               currentRate |-> 0, peakRate |-> 0]]

InitFrom(nodeIds, clockSeqs, prefixes, separators, validAfters, validBefores, times, bursts) ==
    \E nodeId \in nodeIds, cs \in clockSeqs, px \in prefixes, sep \in separators,
       va \in validAfters, vb \in validBefores, t \in times, n \in bursts :
        /\ n > 0 => (va = NULL /\ vb = NULL /\ t = Era2026)
        /\ clock = t
        /\ regressions = 0
        /\ self = IF n = 0 THEN New(nodeId, cs, px, sep, va, vb)
                  ELSE AfterBurst(New(nodeId, cs, px, sep, va, vb), t, n)
        /\ pc = "idle"
        /\ local = [timestamp |-> Zero, sequence |-> 0, regressions |-> 0]
        /\ entry = self
        /\ result = [kind |-> "none"]
        /\ pool = NULL
        /\ job = NoJob
        /\ derived = NoDerived
        /\ issued = <<>>
        /\ burst = [ts |-> t, n |-> n]
        /\ calls = 0

InitWith(nodeIds, clockSeqs, prefixes, separators, validAfters, validBefores) ==
    InitFrom(nodeIds, clockSeqs, prefixes, separators, validAfters, validBefores,
             ClockValues, BurstStarts)

\* an instance whose window opens at the start of the era and closes a millisecond later
Windowed == InitWith({LowerNode}, {0}, {NULL}, {Dash}, {Era2026}, {WindowTime})

\* instances that differ in clock sequence and prefix
Init ==
    \/ InitWith({LowerNode}, {0, ClockSeqMask}, {NULL, UsrPrefix}, {Dash}, {NULL}, {NULL})
    \/ Windowed

\* instances that differ in node id, prefix and separator; createPrefixedGenerator
\* passes the separator '_'
InitFormat ==
    \/ InitWith({LowerNode, UpperNode}, {ClockSeqMask}, {NULL, UsrPrefix}, {Dash, Underscore},
                {NULL}, {NULL})
    \/ Windowed

\* instances that differ in their generation window
InitWindow ==
    InitWith({LowerNode}, {0}, {NULL}, {Dash}, {NULL, Zero, WindowTime},
             {NULL, Zero, WindowTime})

(***************************************************************************)
(* The clock                                                               *)
(***************************************************************************)
Later(t) == {u \in ClockValuesOf(EraOf(t)) : LtN(t, u)}

Tick ==
    /\ Later(clock) # {}
    /\ clock' = CHOOSE u \in Later(clock) : \A w \in Later(clock) : LeN(u, w)
    /\ UNCHANGED <<regressions, self, pc, local, entry, result, issued, burst, calls, pool, job, derived>>

ClockBack ==
    /\ regressions < MaxRegressions
    /\ \E u \in ClockValuesOf(EraOf(clock)) : LtN(u, clock) /\ clock' = u
    /\ regressions' = regressions + 1
    /\ UNCHANGED <<self, pc, local, entry, result, issued, burst, calls, pool, job, derived>>

\* Date.now() after a pause of the length of the rate window, or a millisecond
\* less; the clock of the model pauses before it is ever set back
Elapse ==
    /\ regressions = 0
    /\ clock \in ClockValuesOf(EraOf(clock))
    /\ \E k \in {RateWindowMs - 1, RateWindowMs} : clock' = AddN(clock, Small(k))
    /\ UNCHANGED <<regressions, self, pc, local, entry, result, issued, burst, calls, pool, job, derived>>

(***************************************************************************)
(* generate(), one action per clock reading                                *)
(***************************************************************************)
Locals(me) ==
    [timestamp   |-> TimestampOf(me.lastTimestamp),
     sequence    |-> me.sequenceCounter,
     regressions |-> regressions]

\* lines 52-55 and 63-71: now = Date.now(); count up or restart
GetTimestamp ==
    /\ pc = "idle"
    /\ calls < MaxCalls
    /\ calls' = calls + 1
    /\ entry' = self
    /\ self' = Sequenced(self, clock)
    /\ IF self'.sequenceCounter > MaxSequence
       THEN pc' = "wait" /\ UNCHANGED local
       ELSE pc' = "metrics" /\ local' = Locals(self')
    /\ UNCHANGED <<clock, regressions, result, issued, burst, pool, job, derived>>

\* a loop condition that holds whatever the clock reads
WaitsOn(me, now) == TRUE

\* Date.now() === this.lastTimestamp, line 57
StillWaiting(me, now) == now = me.lastTimestamp

\* lines 57-59: while (Date.now() === this.lastTimestamp) {}
BusyWait ==
    /\ pc = "wait"
    /\ pc' = IF StillWaiting(self, clock) THEN "wait" ELSE "restart"
    /\ UNCHANGED <<clock, regressions, self, local, entry, result, issued, burst, calls, pool, job, derived>>

\* lines 60-61 and 68-71
Restart ==
    /\ pc = "restart"
    /\ self' = Restarted(self, clock)
    /\ local' = Locals(self')
    /\ pc' = "metrics"
    /\ UNCHANGED <<clock, regressions, entry, result, issued, burst, calls, pool, job, derived>>

\* lines 89-102: build the id and return it
Return(me) ==
    LET id == BuildId(me, local.timestamp, local.sequence) IN
    /\ result' = [kind |-> "id", id |-> id]
    /\ issued' = Append(issued, [id |-> id, regressions |-> local.regressions])
    /\ pc' = "idle"

Throw(message) ==
    /\ result' = [kind |-> "error", message |-> message]
    /\ pc' = "idle"
    /\ UNCHANGED issued

\* generate() goes on to its next clock reading: `this.validAfter && Date.now() < ...`
\* reads the clock only when validAfter is truthy, and so for validBefore; with
\* neither left to check the call returns
Proceed(me, checked) ==
    IF checked = "metrics" /\ Truthy(me.validAfter)
    THEN pc' = "validAfter" /\ UNCHANGED <<result, issued>>
    ELSE IF checked # "validBefore" /\ Truthy(me.validBefore)
    THEN pc' = "validBefore" /\ UNCHANGED <<result, issued>>
    ELSE Return(me)

\* line 79, and lines 82-102 when no window is configured
UpdateMetrics ==
    /\ pc = "metrics"
    /\ self' = updateMetrics(self, clock)
    /\ Proceed(self', "metrics")
    /\ UNCHANGED <<clock, regressions, local, entry, burst, calls, pool, job, derived>>

\* lines 82-84
CheckValidAfter ==
    /\ pc = "validAfter"
    /\ IF LtN(clock, self.validAfter)
       THEN Throw("before valid-after")
       ELSE Proceed(self, "validAfter")
    /\ UNCHANGED <<clock, regressions, self, local, entry, burst, calls, pool, job, derived>>

\* lines 85-87
CheckValidBefore ==
    /\ pc = "validBefore"
    /\ IF LtN(self.validBefore, clock)
       THEN Throw("after valid-before")
       ELSE Proceed(self, "validBefore")
    /\ UNCHANGED <<clock, regressions, self, local, entry, burst, calls, pool, job, derived>>

(***************************************************************************)
(* WorkerPool                                                              *)
(***************************************************************************)
\* clock sequences generateClockSeq() may draw for a worker
WorkerClockSeqs == {0, 1}

\* constructor, lines 562-570: every worker is new UUSIDGenerator() without
\* options; on one host generateNodeId() gives each the same MAC-derived node id
NewPool(workers, batchSize, clockSeqs) ==
    [workers    |-> workers,
     batchSize  |-> batchSize,
     generators |-> [k \in 1..workers |->
                        New(LowerNode, clockSeqs[k], NULL, Dash, NULL, NULL)]]

InitPool ==
    \E workers \in 1..MaxWorkers, batchSize \in 1..MaxBatchSize, t \in ClockValuesOf(Era2026) :
    \E clockSeqs \in [1..workers -> WorkerClockSeqs] :
        /\ clock = t
        /\ regressions = 0
        /\ self = New(LowerNode, 0, NULL, Dash, NULL, NULL)
        /\ pc = "idle"
        /\ local = [timestamp |-> Zero, sequence |-> 0, regressions |-> 0]
        /\ entry = self
        /\ result = [kind |-> "none"]
        /\ issued = <<>>
        /\ burst = [ts |-> t, n |-> 0]
        /\ calls = 0
        /\ pool = NewPool(workers, batchSize, clockSeqs)
        /\ job = NoJob
        /\ derived = NoDerived

\* Math.ceil(count / this.batchSize), line 574
BatchCount(count, batchSize) == (count + batchSize - 1) \div batchSize

\* the size a chunk would have without the Math.min of line 578
FullChunk(batchSize, count, i) == batchSize

\* Math.min(this.batchSize, count - (i * this.batchSize)), line 578
ChunkSize(batchSize, count, i) == Min(batchSize, count - i * batchSize)

\* every chunk handed to the first worker
FirstWorker(i, workers) == 0

\* this.generators[i % this.workers], line 577
WorkerOf(i, workers) == i % workers

RECURSIVE Flat(_)
Flat(batches) == IF batches = <<>> THEN <<>> ELSE batches[1] \o Flat(Tail(batches))

\* A generate() call is held in the busy wait of line 57 while the counter is full
\* and the clock still reads lastTimestamp.
Held(me, now) == now = me.lastTimestamp /\ me.sequenceCounter = MaxSequence

\* generate() on an instance without window, both getTimestamp and updateMetrics
\* reading now: the instance afterwards and the id returned
GenerateAt(me, now) ==
    LET sequenced == Sequenced(me, now)
        after     == updateMetrics(sequenced, now)
    IN  [self |-> after,
         id   |-> BuildId(after, TimestampOf(sequenced.lastTimestamp),
                          sequenced.sequenceCounter)]

\* lines 572-574: generateBatch(count) is called on the new pool
PoolGenerateBatch ==
    /\ job.state = "none"
    /\ \E count \in 0..MaxCount :
         job' = [NoJob EXCEPT !.state = "running", !.count = count]
    /\ UNCHANGED <<clock, regressions, genVars, pool>>

\* lines 576-579 and 107-109: the generator of chunk i makes the chunk's next
\* generate() call; the clock moves between calls
PoolGenerate ==
    LET k     == WorkerOf(job.i, pool.workers) + 1
        size  == ChunkSize(pool.batchSize, job.count, job.i)
        call  == GenerateAt(pool.generators[k], clock)
        batch == Append(job.batch, call.id)
    IN  /\ job.state = "running"
        /\ job.i < BatchCount(job.count, pool.batchSize)
        /\ ~Held(pool.generators[k], clock)
        /\ pool' = [pool EXCEPT !.generators[k] = call.self]
        /\ job' = LET logged == Append(job.log, [worker |-> k, chunk |-> job.i,
                                                  id |-> call.id])
                  IN  IF Len(batch) < size
                      THEN [job EXCEPT !.batch = batch, !.log = logged]
                      ELSE [job EXCEPT !.batch = <<>>,
                                       !.batches = Append(job.batches, batch),
                                       !.i = job.i + 1,
                                       !.log = logged]
        /\ UNCHANGED <<clock, regressions, genVars>>

\* line 582: Promise.all(batches).then(results => results.flat())
PoolResolve ==
    /\ job.state = "running"
    /\ job.i >= BatchCount(job.count, pool.batchSize)
    /\ job' = [job EXCEPT !.state = "resolved", !.ids = Flat(job.batches)]
    /\ UNCHANGED <<clock, regressions, genVars, pool>>

(***************************************************************************)
(* validate (lines 227-296)                                                *)
(***************************************************************************)
\* the characters a text that passed the pattern of line 239 is made of, the
\* separator apart
HexChars == HexDigits \o UpperHex

\* two characters match under the pattern's flag 'i'; the separators of the model
\* hold no letter outside a-f
SameIgnoringCase(c, d) == c = d \/ (HexVal(c) >= 10 /\ HexVal(c) = HexVal(d))

\* uuidRegex.test(cleanId), lines 238-241: groups of 8, 4, 4, 4 and 12 hexadecimal
\* digits in either case with the escaped separator between them, nothing else
MatchesUuid(cleanId, sep) ==
    LET L == Len(sep) IN
    /\ Len(cleanId) = 32 + 4 * L
    /\ \A k \in 1..5 :
         LET from  == <<1, 9, 13, 17, 21>>[k] + (k - 1) * L
             width == <<8, 4, 4, 4, 12>>[k]
         IN  /\ \A j \in from..(from + width - 1) : HexVal(cleanId[j]) >= 0
             /\ k < 5 => \A j \in 1..L : SameIgnoringCase(cleanId[from + width + j - 1], sep[j])

\* What the entropy of lines 253-257 is computed from: how often each character
\* occurs in hexString. The Number is the sum over the positions i of
\* -p * log2(p), p the share of the character at i; the literal 0 of line 247 is
\* the histogram of no characters.
Histogram(hexString) ==
    [k \in 1..Len(HexChars) |-> Len(SelectSeq(hexString, LAMBDA c : c = HexChars[k]))]

\* timestamp < limit and timestamp > limit for the value extractTimestamp
\* returned and a whole number of milliseconds
Earlier(d, limit) == d.neg \/ LtN(d.ms, limit)

LaterThan(d, limit) == ~d.neg /\ (LtN(limit, d.ms) \/ (d.ms = limit /\ d.frac > 0))

Invalid(reason, version, entropy) ==
    [valid |-> FALSE, isValid |-> FALSE, reason |-> reason, version |-> version,
     entropy |-> entropy]

\* the call's outcome: thrown |-> FALSE and the object returned; what
\* extractTimestamp throws is caught (lines 260 and 280-288)
validate(me, id, allowPrefix) ==
    LET stripped == /\ allowPrefix
                    /\ me.prefix # NULL
                    /\ Len(id) >= Len(me.prefix) + Len(me.separator)
                    /\ SubSeq(id, 1, Len(me.prefix) + Len(me.separator))
                           = me.prefix \o me.separator
        cleanId  == IF stripped THEN SubSeq(id, Len(me.prefix) + 2, Len(id)) ELSE id
        uusid    == <<"uusid">>
    IN  IF ~MatchesUuid(cleanId, me.separator)
        THEN [thrown |-> FALSE, value |-> Invalid("Invalid format", NULL, Histogram(<<>>))]
        ELSE LET entropy   == Histogram(RemoveAll(cleanId, me.separator))
                 timestamp == extractTimestamp(me, cleanId)
                 value     ==
                    IF timestamp.thrown THEN Invalid("Invalid timestamp", uusid, entropy)
                    ELSE IF Truthy(me.validAfter) /\ Earlier(timestamp, me.validAfter)
                    THEN Invalid("Before valid range", uusid, entropy)
                    ELSE IF Truthy(me.validBefore) /\ LaterThan(timestamp, me.validBefore)
                    THEN Invalid("After valid range", uusid, entropy)
                    ELSE [valid |-> TRUE, isValid |-> TRUE, version |-> uusid,
                          entropy |-> entropy]
             IN  [thrown |-> FALSE, value |-> value]

\* separators of one hexadecimal letter and of two characters
SepF == <<"f">>

ColonColon == <<":", ":">>

\* where the third group of an id of the instance begins
VersionAt(me, id) == Len(id) - 19 - 2 * Len(me.separator)

\* id with the first character of its third group replaced
WithVersion(me, id, c) == [id EXCEPT ![VersionAt(me, id)] = c]

\* texts handed to validate: the id generate() returned last, the same with
\* version nibble 4, and without its last character; ids of the instance's layout
\* for 1970-01-01 and for 2039-09-18; the empty string
Texts ==
    LET last == IF issued = <<>> THEN {} ELSE {issued[Len(issued)].id} IN
    last
    \cup {WithVersion(self, id, "4") : id \in last}
    \cup {SubSeq(id, 1, Len(id) - 1) : id \in last}
    \cup {BuildId(self, TimestampOf(Zero), 0), BuildId(self, TimestampOf(Era2039), 0), <<>>}

InitValidate ==
    \/ InitFrom({LowerNode}, {ClockSeqMask}, {NULL}, {Dash, SepF}, {NULL}, {NULL},
                {Era2026}, {0})
    \/ InitFrom({LowerNode}, {ClockSeqMask}, {UsrPrefix}, {Dash, ColonColon}, {NULL}, {NULL},
                {Era2026}, {0})
    \/ InitFrom({LowerNode}, {ClockSeqMask}, {NULL}, {Dash}, {NULL}, {NULL},
                {Era2026}, {MaxSequence + 1})
    \/ InitFrom({LowerNode}, {0}, {NULL}, {Dash}, {Era2026}, {WindowTime, Zero},
                {Era2026}, {0})

\* validate(id, {allowPrefix}) is called between two generate() calls, once: it
\* changes nothing, and a second call in a row would meet the same instance.
\* allowPrefix is read only by an instance that has a prefix.
Validate ==
    /\ pc = "idle"
    /\ result.kind # "validation"
    /\ \E id \in Texts, allowPrefix \in (IF self.prefix = NULL THEN {TRUE} ELSE BOOLEAN) :
         result' = [kind |-> "validation", id |-> id, allowPrefix |-> allowPrefix,
                    outcome |-> validate(self, id, allowPrefix)]
    /\ UNCHANGED <<clock, regressions, self, pc, local, entry, issued, burst, calls, pool, job, derived>>

(***************************************************************************)
(* generate() as one step, for the methods that call it or come between    *)
(* two calls of it                                                          *)
(***************************************************************************)
\* lines 75-103 on an instance without window, run from call to return while
\* the clock reads one value
Generate ==
    /\ pc = "idle"
    /\ calls < MaxCalls
    /\ ~Held(self, clock)
    /\ LET call == GenerateAt(self, clock) IN
         /\ self' = call.self
         /\ result' = [kind |-> "id", id |-> call.id]
         /\ issued' = Append(issued, [id |-> call.id, regressions |-> regressions])
    /\ entry' = self
    /\ calls' = calls + 1
    /\ UNCHANGED <<clock, regressions, pc, local, burst, pool, job, derived>>

(***************************************************************************)
(* fromContent (lines 173-188)                                             *)
(***************************************************************************)
Letters == <<"a", "b", "c", "d", "e", "f", "g", "h", "i", "j", "k", "l", "m",
             "n", "o", "p", "q", "r", "s", "t", "u", "v", "w", "x", "y", "z">>

\* the UTF-8 byte of a lower-case letter
CharCode(c) == 96 + CHOOSE i \in 1..Len(Letters) : Letters[i] = c

DefaultNamespace == <<"d", "e", "f", "a", "u", "l", "t">>

Sha256 == <<"s", "h", "a", "2", "5", "6">>

Md5 == <<"m", "d", "5">>

\* hex characters of a digest: 64 for sha256, 32 for md5
DigestLength(algorithm) == IF algorithm = Sha256 THEN 64 ELSE 32

\* const { namespace = 'default', algorithm = 'sha256' } = options, line 174: a
\* default stands in for a property the options do not have
Destructured(options) ==
    [namespace |-> IF "namespace" \in DOMAIN options THEN options.namespace
                   ELSE DefaultNamespace,
     algorithm |-> IF "algorithm" \in DOMAIN options THEN options.algorithm ELSE Sha256]

\* what the hash has been fed when digest() is called: content only
ContentOnly(namespace, content) == content

\* hash.update(namespace); hash.update(content), lines 176-177: the hash is fed
\* the namespace and then the content
Updated(namespace, content) == namespace \o content

RECURSIVE HexOfBytes(_)
HexOfBytes(data) ==
    IF data = <<>> THEN <<>> ELSE Hex2(CharCode(data[1])) \o HexOfBytes(Tail(data))

\* crypto.createHash(algorithm) ... digest('hex'), lines 175-178. The hash function
\* is not computed: standing for it is a function of the algorithm and of what the
\* hash was fed that has no collision among the texts of at most MaxHashed
\* letters, its first 32 characters included (the algorithm, the length and the
\* bytes, filled up with zeros to the digest's length).
Digest(algorithm, data) ==
    LET head == Hex2(Len(algorithm)) \o Hex2(Len(data)) \o HexOfBytes(data)
    IN  head \o [i \in 1..(DigestLength(algorithm) - Len(head)) |-> "0"]

\* lines 173-188
fromContent(me, content, options) ==
    LET given  == Destructured(options)
        digest == Digest(given.algorithm, Updated(given.namespace, content))
    IN  Join5(SubSeq(digest, 1, 8), SubSeq(digest, 9, 12), SubSeq(digest, 13, 16),
              SubSeq(digest, 17, 20), SubSeq(digest, 21, 32), me.separator)

Users == <<"u", "s", "e", "r", "s">>

Files == <<"f", "i", "l", "e", "s">>

\* the content arguments of the model
Contents == {<<"a">>, <<"s", "a">>}

\* the options arguments of the model: none, a namespace, an algorithm, both
ContentOptions ==
    {<<>>, [namespace |-> Files], [namespace |-> <<"f", "i", "l", "e">>],
     [namespace |-> Files, algorithm |-> Md5]}

\* instances that differ in separator and in what they generated before
InitContent ==
    InitFrom({LowerNode}, {ClockSeqMask}, {NULL}, {Dash, Underscore}, {NULL}, {NULL},
             ClockValues, {0})

\* a fromContent call between two generate() calls; a call made before the first
\* generate() call is kept, with the clock's reading, for the later calls to be
\* compared with
FromContent ==
    /\ pc = "idle"
    /\ \E content \in Contents, options \in ContentOptions :
         LET text == fromContent(self, content, options) IN
         /\ result' = [kind |-> "content", content |-> content, options |-> options,
                       text |-> text]
         /\ derived' = IF derived.content # <<>> \/ calls > 0 THEN derived
                       ELSE [derived EXCEPT !.content =
                               <<[content |-> content, options |-> options, text |-> text,
                                  clock |-> clock]>>]
    /\ UNCHANGED <<clock, regressions, self, pc, local, entry, issued, burst, calls, pool, job>>

(***************************************************************************)
(* encrypt and decrypt (lines 191-224), EncryptedGenerator (lines 544-556)  *)
(***************************************************************************)
\* the character U+00E9, two bytes in UTF-8
EAcute == "U+00E9"

\* bytes Buffer.from(text) holds: one for an ASCII character
Utf8Length(text) == Len(text) + Len(SelectSeq(text, LAMBDA c : c = EAcute))

\* this.secretKey.padEnd(32, '0').substring(0, 32), lines 196 and 215
KeyOf(secretKey) ==
    SubSeq(secretKey \o [i \in 1..(IF Len(secretKey) < 32 THEN 32 - Len(secretKey) ELSE 0)
                           |-> "0"], 1, 32)

\* the bytes an aes-256-cbc key has; createCipheriv and createDecipheriv throw on
\* a key of another length
KeyBytes == 32

\* String.prototype.split by a one-character separator
RECURSIVE Split(_, _)
Split(s, c) ==
    IF \A i \in 1..Len(s) : s[i] # c THEN <<s>>
    ELSE LET i == CHOOSE j \in 1..Len(s) : s[j] = c /\ \A k \in 1..(j - 1) : s[k] # c
         IN  <<SubSeq(s, 1, i - 1)>> \o Split(SubSeq(s, i + 1, Len(s)), c)

\* iv.toString('hex') of the 16 bytes crypto.randomBytes drew, all of them b
IvHex(b) == [i \in 1..32 |-> Hex2(b)[2 - (i % 2)]]

\* the bytes crypto.randomBytes(16) may draw in the model
IvBytes == {0, 171}

\* The block cipher is not computed. The envelopes made so far are kept, each
\* with key, iv, plaintext and the ciphertext's hex text; the hex text of a
\* ciphertext made the first time stands for what AES returned, and equal key, iv
\* and plaintext give the ciphertext they gave before.
Cipher(sealed, key, iv, data) ==
    LET same == {i \in 1..Len(sealed) :
                   sealed[i].key = key /\ sealed[i].iv = iv /\ sealed[i].data = data}
    IN  IF same # {} THEN sealed[CHOOSE i \in same : TRUE].encrypted
        ELSE Hex4(Len(sealed)) \o Hex4(Len(data))

Thrown(message) == [thrown |-> TRUE, message |-> message]

Returned(value) == [thrown |-> FALSE, value |-> value]

\* lines 191-203, iv the bytes drawn in line 197
encrypt(me, data, iv, sealed) ==
    IF me.secretKey = NULL THEN Thrown("Secret key required for encryption")
    ELSE LET key == KeyOf(me.secretKey) IN
         IF Utf8Length(key) # KeyBytes THEN Thrown("Invalid key length")
         ELSE Returned(IvHex(iv) \o <<":">> \o Cipher(sealed, key, iv, data))

\* what decipher.update and decipher.final give for a ciphertext that was not made
\* with this key and iv: the padding check of final fails, or the last block
\* happens to end in a valid padding and the bytes are returned as text
Garbage == <<"?">>

\* lines 205-224: every outcome the call can have
decrypt(me, encryptedData, sealed) ==
    IF me.secretKey = NULL THEN {Thrown("Secret key required for decryption")}
    ELSE LET parts == Split(encryptedData, ":") IN
         IF Len(parts) # 2 THEN {Thrown("Invalid encrypted data format")}
         ELSE LET key  == KeyOf(me.secretKey)
                  made == {i \in 1..Len(sealed) :
                             /\ sealed[i].key = key
                             /\ IvHex(sealed[i].iv) = parts[1]
                             /\ sealed[i].encrypted = parts[2]}
              IN  IF Utf8Length(key) # KeyBytes THEN {Thrown("Invalid key length")}
                  ELSE IF Len(parts[1]) # 32 THEN {Thrown("Invalid initialization vector")}
                  ELSE IF made # {} THEN {Returned(sealed[i].data) : i \in made}
                  ELSE {Thrown("bad decrypt"), Returned(Garbage)}

\* options.secretKey of the model: 'k' and 'k0' fill up to the same key
SecretKeys == {<<"k">>, <<"k", "0">>, <<"s">>, <<EAcute>>}

\* a canonical id to encrypt
KnownId == BuildId(New(LowerNode, ClockSeqMask, NULL, Dash, NULL, NULL), TimestampOf(Era2026), 0)

\* createEncryptedGenerator({ secretKey }): the constructor of lines 545-550 has
\* been passed a secret key
InitCrypto ==
    \E secretKey \in SecretKeys, t \in ClockValuesOf(Era2026) :
        /\ clock = t
        /\ regressions = 0
        /\ self = [New(LowerNode, ClockSeqMask, NULL, Dash, NULL, NULL)
                     EXCEPT !.secretKey = secretKey]
        /\ pc = "idle"
        /\ local = [timestamp |-> Zero, sequence |-> 0, regressions |-> 0]
        /\ entry = self
        /\ result = [kind |-> "none"]
        /\ pool = NULL
        /\ job = NoJob
        /\ derived = NoDerived
        /\ issued = <<>>
        /\ burst = [ts |-> t, n |-> 0]
        /\ calls = 0

\* the envelopes kept, with one more when the call returned a new one
Sealed(me, data, iv, outcome) ==
    IF outcome.thrown \/ \E i \in 1..Len(derived.sealed) :
                            derived.sealed[i].envelope = outcome.value
    THEN derived.sealed
    ELSE Append(derived.sealed,
                [secretKey |-> me.secretKey, key |-> KeyOf(me.secretKey), iv |-> iv,
                 data |-> data, encrypted |-> Cipher(derived.sealed, KeyOf(me.secretKey), iv, data),
                 envelope |-> outcome.value])

\* encrypt(id) of a canonical id
Encrypt ==
    /\ pc = "idle"
    /\ Len(derived.sealed) < MaxSealed
    /\ \E iv \in IvBytes :
         LET outcome == encrypt(self, KnownId, iv, derived.sealed) IN
         /\ result' = [kind |-> "envelope", data |-> KnownId, outcome |-> outcome]
         /\ derived' = [derived EXCEPT !.sealed = Sealed(self, KnownId, iv, outcome)]
    /\ UNCHANGED <<clock, regressions, self, pc, local, entry, issued, burst, calls, pool, job>>

\* EncryptedGenerator.generate(), lines 552-555: super.generate(), then encrypt
EncryptedGenerate ==
    /\ pc = "idle"
    /\ calls < MaxCalls
    /\ Len(derived.sealed) < MaxSealed
    /\ ~Held(self, clock)
    /\ \E iv \in IvBytes :
         LET call    == GenerateAt(self, clock)
             outcome == encrypt(call.self, call.id, iv, derived.sealed)
         IN  /\ self' = call.self
             /\ issued' = Append(issued, [id |-> call.id, regressions |-> regressions])
             /\ result' = [kind |-> "envelope", data |-> call.id, outcome |-> outcome]
             /\ derived' = [derived EXCEPT !.sealed = Sealed(call.self, call.id, iv, outcome)]
    /\ entry' = self
    /\ calls' = calls + 1
    /\ UNCHANGED <<clock, regressions, pc, local, burst, pool, job>>

\* the texts decrypt is called with: the envelopes made, and each without its
\* iv and ':', without its iv, and with a ':' and a byte more
Envelopes ==
    UNION {LET e == derived.sealed[i] IN
           {e.envelope, e.encrypted, <<":">> \o e.encrypted, e.envelope \o <<":", "0", "0">>}
           : i \in 1..Len(derived.sealed)} \cup {<<>>}

\* decrypt(encryptedData) on this instance, or on an instance constructed with
\* another secret key
Decrypt ==
    /\ pc = "idle"
    /\ \E encryptedData \in Envelopes, secretKey \in SecretKeys :
       \E outcome \in decrypt([self EXCEPT !.secretKey = secretKey], encryptedData,
                              derived.sealed) :
         result' = [kind |-> "decrypted", encryptedData |-> encryptedData,
                    secretKey |-> secretKey, outcome |-> outcome]
    /\ UNCHANGED <<clock, regressions, self, pc, local, entry, issued, burst, calls, pool, job,
                   derived>>

(***************************************************************************)
(* hierarchical (lines 146-170) and parseHierarchy (lines 398-412)         *)
(***************************************************************************)
Dot == <<".">>

\* const { levels = 3, separator = '.', parent = null } = options, line 147
HierarchyOptions(options) ==
    [levels    |-> IF "levels" \in DOMAIN options THEN options.levels ELSE 3,
     separator |-> IF "separator" \in DOMAIN options THEN options.separator ELSE Dot,
     parent    |-> IF "parent" \in DOMAIN options THEN options.parent ELSE NULL]

\* Array.prototype.join
RECURSIVE JoinWith(_, _)
JoinWith(parts, separator) ==
    IF Len(parts) = 0 THEN <<>>
    ELSE IF Len(parts) = 1 THEN parts[1]
    ELSE parts[1] \o separator \o JoinWith(Tail(parts), separator)

\* lines 146-170, uuid what this.generate() returned in line 151 or 157
hierarchical(me, options, uuid) ==
    LET given == HierarchyOptions(options)
        id    == RemoveAll(uuid, me.separator)
    IN  IF given.parent # NULL
        THEN given.parent \o given.separator \o SubSeq(id, 1, Min(10, Len(id)))
        ELSE LET partLength == Len(id) \div given.levels
                 parts == [i \in 1..given.levels |->
                              SubSeq(id, (i - 1) * partLength + 1,
                                     IF i = given.levels THEN Len(id) ELSE i * partLength)]
             IN  JoinWith(parts, given.separator)

\* lines 398-412, for a separator of one character
parseHierarchy(id, options) ==
    LET separator == IF "separator" \in DOMAIN options THEN options.separator ELSE Dot
        parts     == Split(id, separator[1])
    IN  [depth  |-> Max(0, Len(parts) - 3),
         parts  |-> parts,
         parent |-> IF Len(parts) > 3
                    THEN JoinWith(SubSeq(parts, 1, Len(parts) - 1), separator) ELSE NULL,
         root   |-> JoinWith(SubSeq(parts, 1, Min(3, Len(parts))), separator),
         leaf   |-> parts[Len(parts)]]

\* a prefix with the character '.' in it
DottedPrefix == <<"v", ".", "1">>

\* a hierarchical id of three segments made elsewhere
KnownRoot == hierarchical(New(LowerNode, ClockSeqMask, NULL, Dash, NULL, NULL), <<>>, KnownId)

\* instances that differ in prefix
InitHierarchy ==
    InitFrom({LowerNode}, {ClockSeqMask}, {NULL, UsrPrefix, DottedPrefix}, {Dash},
             {NULL}, {NULL}, ClockValuesOf(Era2026), {0})

\* the ids a child is made of: the hierarchical id made last, and KnownRoot
Parents == {derived.tree[i].id : i \in 1..Len(derived.tree)} \cup {KnownRoot}

\* hierarchical() or hierarchical({ parent }) on an instance without window; kept
\* are the id returned, the parent passed, the root the id descends from and the
\* number of hierarchical({ parent }) calls that led from the root to the id
Hierarchical ==
    /\ pc = "idle"
    /\ calls < MaxCalls
    /\ ~Held(self, clock)
    /\ \E options \in {<<>>} \cup {[parent |-> h] : h \in Parents} :
         LET call == GenerateAt(self, clock)
             id   == hierarchical(call.self, options, call.id)
             made == IF options = <<>> THEN [id |-> id, parent |-> NULL, root |-> id,
                                             children |-> 0]
                     ELSE IF derived.tree # <<>> /\ options.parent = derived.tree[1].id
                     THEN [id |-> id, parent |-> options.parent,
                           root |-> derived.tree[1].root,
                           children |-> derived.tree[1].children + 1]
                     ELSE [id |-> id, parent |-> options.parent, root |-> options.parent,
                           children |-> 1]
         IN  /\ self' = call.self
             /\ issued' = Append(issued, [id |-> call.id, regressions |-> regressions])
             /\ result' = [kind |-> "hierarchical", id |-> id]
             /\ derived' = [derived EXCEPT !.tree = <<made>>]
    /\ entry' = self
    /\ calls' = calls + 1
    /\ UNCHANGED <<clock, regressions, pc, local, burst, pool, job>>

\* parseHierarchy(id) of the hierarchical id made last
ParseHierarchy ==
    /\ pc = "idle"
    /\ derived.tree # <<>>
    /\ result.kind # "hierarchy"
    /\ result' = [kind |-> "hierarchy", id |-> derived.tree[1].id,
                  info |-> parseHierarchy(derived.tree[1].id, <<>>)]
    /\ UNCHANGED <<clock, regressions, self, pc, local, entry, issued, burst, calls, pool, job,
                   derived>>

(***************************************************************************)
(* base32, urlSafe, compact (lines 125-143) and toBase32 (lines 494-515)   *)
(***************************************************************************)
\* Buffer.from(hexString, 'hex'), line 129: the bytes of the pairs of hex digits,
\* up to the first pair that is not one
RECURSIVE HexToBytes(_)
HexToBytes(hexString) ==
    IF Len(hexString) < 2 \/ HexVal(hexString[1]) < 0 \/ HexVal(hexString[2]) < 0 THEN <<>>
    ELSE <<16 * HexVal(hexString[1]) + HexVal(hexString[2])>>
         \o HexToBytes(SubSeq(hexString, 3, Len(hexString)))

\* line 495
alphabet == <<"A", "B", "C", "D", "E", "F", "G", "H", "I", "J", "K", "L", "M",
              "N", "O", "P", "Q", "R", "S", "T", "U", "V", "W", "X", "Y", "Z",
              "2", "3", "4", "5", "6", "7">>

\* 2^k for the shifts of toBase32
Pow2(k) == <<1, 2, 4, 8, 16, 32, 64, 128, 256>>[k + 1]

\* value is a 32-bit integer, here <<low 16 bits, high 16 bits>>.
\* (value << 8) | byte, line 501: the top eight bits are shifted out
ShiftIn(value, byte) ==
    <<(value[1] % 256) * 256 + byte, (value[2] % 256) * 256 + value[1] \div 256>>

\* (value >>> k) & 31 for k <= 7, line 505: the five bits lie in the low 16
Group(value, k) == (value[1] \div Pow2(k)) % 32

\* the last group taken without the shift that pads it
Unpadded(value, bits) == value[1] % 32

\* (value << (5 - bits)) & 31, line 511
PadGroup(value, bits) == (value[1] * Pow2(5 - bits)) % 32

\* the while loop of lines 504-507
RECURSIVE Drain(_)
Drain(st) ==
    IF st.bits < 5 THEN st
    ELSE Drain([st EXCEPT !.result = Append(@, alphabet[Group(st.value, st.bits - 5) + 1]),
                          !.bits = @ - 5])

\* the for loop of lines 500-508 from byte i on
RECURSIVE Encode(_, _, _)
Encode(buffer, i, st) ==
    IF i > Len(buffer) THEN st
    ELSE Encode(buffer, i + 1,
                Drain([st EXCEPT !.value = ShiftIn(@, buffer[i]), !.bits = @ + 8]))

\* lines 494-515
toBase32(buffer) ==
    LET st == Encode(buffer, 1, [value |-> <<0, 0>>, bits |-> 0, result |-> <<>>]) IN
    IF st.bits > 0 THEN Append(st.result, alphabet[PadGroup(st.value, st.bits) + 1])
    ELSE st.result

\* String.prototype.toLowerCase on the characters of an id
ToLowerCase(text) ==
    [i \in 1..Len(text) |->
        IF \E k \in 1..6 : UpperHex[k] = text[i]
        THEN HexDigits[10 + CHOOSE k \in 1..6 : UpperHex[k] = text[i]]
        ELSE text[i]]

\* lines 125-143 after this.generate() returned uuid
Encoded(me, method, uuid) ==
    LET stripped == RemoveAll(uuid, me.separator) IN
    IF method = "base32" THEN toBase32(HexToBytes(stripped))
    ELSE IF method = "urlSafe" THEN ToLowerCase(stripped)
    ELSE stripped

\* instances that differ in node id, prefix and separator
InitEncodings ==
    InitFrom({LowerNode, UpperNode, [i \in 1..12 |-> "f"]}, {ClockSeqMask}, {NULL, UsrPrefix},
             {Dash, Underscore}, {NULL}, {NULL}, ClockValues, {0})

\* base32(), urlSafe() or compact() on an instance without window
EncodeFresh ==
    /\ pc = "idle"
    /\ calls < MaxCalls
    /\ ~Held(self, clock)
    /\ \E method \in {"base32", "urlSafe", "compact"} :
         LET call == GenerateAt(self, clock) IN
         /\ self' = call.self
         /\ issued' = Append(issued, [id |-> call.id, regressions |-> regressions])
         /\ result' = [kind |-> method, uuid |-> call.id,
                       buffer |-> HexToBytes(RemoveAll(call.id, call.self.separator)),
                       text |-> Encoded(call.self, method, call.id)]
    /\ entry' = self
    /\ calls' = calls + 1
    /\ UNCHANGED <<clock, regressions, pc, local, burst, pool, job, derived>>

(***************************************************************************)
(* analyze (lines 333-395): the counts                                     *)
(***************************************************************************)
\* the for loop of lines 349-382 from entry i on; seen is the Set of line 346
RECURSIVE Analyzed(_, _, _, _, _)
Analyzed(me, idArray, i, seen, analysis) ==
    IF i > Len(idArray) THEN [analysis EXCEPT !.uniqueIds = Cardinality(seen)]
    ELSE LET id == idArray[i] IN
         IF id \in seen
         THEN Analyzed(me, idArray, i + 1, seen, [analysis EXCEPT !.duplicates = @ + 1])
         ELSE IF validate(me, id, TRUE).value.valid
         THEN Analyzed(me, idArray, i + 1, seen \cup {id}, [analysis EXCEPT !.valid = @ + 1])
         ELSE Analyzed(me, idArray, i + 1, seen \cup {id},
                       [analysis EXCEPT !.invalid = @ + 1, !.errors = @ + 1])

\* lines 333-395; errors is the length of the errors array
analyze(me, idArray) ==
    Analyzed(me, idArray, 1, {},
             [total |-> Len(idArray), totalIds |-> Len(idArray), valid |-> 0, invalid |-> 0,
              duplicates |-> 0, uniqueIds |-> 0, errors |-> 0])

\* an instance that has generated nothing yet or one id
InitAnalyze ==
    InitFrom({LowerNode}, {ClockSeqMask}, {NULL}, {Dash}, {NULL}, {NULL},
             ClockValuesOf(Era2026), {0, 1})

\* every id the instance has generated, in order
Batch == [s \in 1..burst.n |-> BuildId(self, TimestampOf(burst.ts), s - 1)]
         \o [i \in 1..Len(issued) |-> issued[i].id]

\* the arrays analyze is called with: the batch generated, the batch with its first
\* id a second time at the end, and arrays of other texts
IdArrays ==
    {Batch, <<>>, <<KnownId, <<"x">>, KnownId, <<"x">>, <<>>>>}
    \cup (IF Batch = <<>> THEN {} ELSE {Batch \o <<Batch[1]>>})

\* analyze(idArray) between two generate() calls
Analyze ==
    /\ pc = "idle"
    /\ \E idArray \in IdArrays :
         result' = [kind |-> "analysis", idArray |-> idArray, analysis |-> analyze(self, idArray)]
    /\ UNCHANGED <<clock, regressions, self, pc, local, entry, issued, burst, calls, pool, job,
                   derived>>

(***************************************************************************)
(* Generators made from options (lines 8-27) and uusid (lines 590-596)     *)
(***************************************************************************)
\* clock sequences generateClockSeq() may draw
DrawnClockSeqs == {0, 1, ClockSeqMask}

\* new UUSIDGenerator(options), lines 8-27, for the options nodeId, clockSeq and
\* prefix: `options.x || default` takes the default for an option that is absent
\* and for one that is falsy, 0 among them. drawn is what generateClockSeq() gives,
\* and generateNodeId() gives the node id of the host.
Construct(options, drawn) ==
    New(IF "nodeId" \in DOMAIN options /\ options.nodeId # NULL THEN options.nodeId
        ELSE LowerNode,
        IF "clockSeq" \in DOMAIN options /\ options.clockSeq # 0 THEN options.clockSeq
        ELSE drawn,
        IF "prefix" \in DOMAIN options /\ options.prefix # NULL THEN options.prefix ELSE NULL,
        Dash, NULL, NULL)

\* two generators made from the same explicit nodeId and clockSeq
InitTwins ==
    \E clockSeq \in DrawnClockSeqs, nodeId \in {LowerNode, UpperNode},
       first \in DrawnClockSeqs, second \in DrawnClockSeqs, t \in ClockValuesOf(Era2026) :
        LET options == [nodeId |-> nodeId, clockSeq |-> clockSeq] IN
        /\ clock = t
        /\ regressions = 0
        /\ self = Construct(options, first)
        /\ pc = "idle"
        /\ local = [timestamp |-> Zero, sequence |-> 0, regressions |-> 0]
        /\ entry = self
        /\ result = [kind |-> "none"]
        /\ pool = NULL
        /\ job = NoJob
        /\ derived = [NoDerived EXCEPT !.twin = <<[options |-> options,
                                                   self |-> Construct(options, second),
                                                   ids |-> <<>>]>>]
        /\ issued = <<>>
        /\ burst = [ts |-> t, n |-> 0]
        /\ calls = 0

\* generate() on both generators while the clock reads one value
GenerateTwins ==
    /\ pc = "idle"
    /\ calls < MaxCalls
    /\ ~Held(self, clock)
    /\ ~Held(derived.twin[1].self, clock)
    /\ LET call  == GenerateAt(self, clock)
           other == GenerateAt(derived.twin[1].self, clock)
       IN  /\ self' = call.self
           /\ result' = [kind |-> "id", id |-> call.id]
           /\ issued' = Append(issued, [id |-> call.id, regressions |-> regressions])
           /\ derived' = [derived EXCEPT !.twin[1].self = other.self,
                                         !.twin[1].ids = Append(@, other.id)]
    /\ entry' = self
    /\ calls' = calls + 1
    /\ UNCHANGED <<clock, regressions, pc, local, burst, pool, job>>

\* the default generator of line 587, made without options
InitUusid ==
    InitFrom({LowerNode}, DrawnClockSeqs, {NULL}, {Dash}, {NULL}, {NULL},
             ClockValuesOf(Era2026), {0})

\* the options uusid is called with; <<>> is no options
UusidOptions ==
    {<<>>, [prefix |-> UsrPrefix], [nodeId |-> UpperNode, clockSeq |-> 1]}

\* uusid(options), lines 590-596: with options a new generator generates the id,
\* without them the default generator; kept are the options and the id returned
Uusid ==
    /\ pc = "idle"
    /\ calls < MaxCalls
    /\ ~Held(self, clock)
    /\ \E options \in UusidOptions, drawn \in DrawnClockSeqs :
         LET call == GenerateAt(IF options = <<>> THEN self ELSE Construct(options, drawn),
                                clock)
         IN  /\ self' = IF options = <<>> THEN call.self ELSE self
             /\ result' = [kind |-> "id", id |-> call.id]
             /\ derived' = [derived EXCEPT !.uusid =
                               Append(@, [options |-> options, id |-> call.id])]
    /\ calls' = calls + 1
    /\ UNCHANGED <<clock, regressions, pc, local, entry, issued, burst, pool, job>>

(***************************************************************************)
(* Specifications                                                          *)
(***************************************************************************)
Next ==
    \/ Tick
    \/ ClockBack
    \/ GetTimestamp
    \/ BusyWait
    \/ Restart
    \/ UpdateMetrics
    \/ CheckValidAfter
    \/ CheckValidBefore

Spec == Init /\ [][Next]_vars

SpecFormat == InitFormat /\ [][Next]_vars

SpecWindow == InitWindow /\ [][Next]_vars

NextPool ==
    \/ Tick
    \/ ClockBack
    \/ PoolGenerateBatch
    \/ PoolGenerate
    \/ PoolResolve

SpecPool == InitPool /\ [][NextPool]_vars

NextValidate ==
    \/ Next
    \/ Validate

\* a new instance with or without a window, and one that has returned 65536
\* ids in the millisecond read
InitLive ==
    \/ InitFrom({LowerNode}, {ClockSeqMask}, {NULL}, {Dash}, {NULL}, {NULL}, {Era2026}, {0, MaxSequence + 1})
    \/ InitFrom({LowerNode}, {ClockSeqMask}, {NULL}, {Dash}, {Era2026}, {WindowTime}, {Era2026}, {0})

\* the steps of a generate() call that has begun; pc enables one of them at most
Running == BusyWait \/ Restart \/ UpdateMetrics \/ CheckValidAfter \/ CheckValidBefore

\* The clock goes on within its era, and a generate() call that has begun runs
\* on: it is synchronous code, nothing else runs before it ends.
SpecLive ==
    /\ InitLive
    /\ [][Next]_vars
    /\ WF_vars(Tick)
    /\ WF_vars(Running)

\* instances with no sample, one sample or 65536 samples, with and without a window
InitMetrics ==
    \/ InitFrom({LowerNode}, {ClockSeqMask}, {NULL}, {Dash}, {NULL}, {NULL}, {Era2026}, {0, 1, MaxSequence + 1})
    \/ InitFrom({LowerNode}, {ClockSeqMask}, {NULL}, {Dash}, {Era2026}, {WindowTime}, {Era2026}, {0})

NextMetrics == Next \/ Elapse

SpecMetrics == InitMetrics /\ [][NextMetrics]_vars

\* instances whose window opens a millisecond after the start of the era or
\* closes at the start of the era, and one about to overflow
InitWindowValidate ==
    \/ InitFrom({LowerNode}, {0}, {NULL}, {Dash}, {NULL, WindowTime}, {NULL, Era2026}, {Era2026}, {0})
    \/ InitFrom({LowerNode}, {0}, {NULL}, {Dash}, {NULL}, {NULL}, {Era2026}, {MaxSequence + 1})

SpecWindowValidate == InitWindowValidate /\ [][NextValidate]_vars

SpecValidate == InitValidate /\ [][NextValidate]_vars

NextContent ==
    \/ Tick
    \/ Generate
    \/ FromContent

SpecContent == InitContent /\ [][NextContent]_vars

NextCrypto ==
    \/ Tick
    \/ Encrypt
    \/ EncryptedGenerate
    \/ Decrypt

SpecCrypto == InitCrypto /\ [][NextCrypto]_vars

NextAnalyze ==
    \/ Tick
    \/ ClockBack
    \/ Generate
    \/ Analyze

SpecAnalyze == InitAnalyze /\ [][NextAnalyze]_vars

NextTwins ==
    \/ Tick
    \/ ClockBack
    \/ GenerateTwins

SpecTwins == InitTwins /\ [][NextTwins]_vars

NextUusid ==
    \/ Tick
    \/ Uusid

SpecUusid == InitUusid /\ [][NextUusid]_vars

NextEncodings ==
    \/ Tick
    \/ EncodeFresh

SpecEncodings == InitEncodings /\ [][NextEncodings]_vars

NextHierarchy ==
    \/ Tick
    \/ Hierarchical
    \/ ParseHierarchy

SpecHierarchy == InitHierarchy /\ [][NextHierarchy]_vars

(***************************************************************************)
(* Properties of the generator                                               *)
(***************************************************************************)
\* validate, lines 230-235: the id without the instance's prefix and separator
CleanId(me, id) ==
    IF me.prefix # NULL /\ Len(id) >= Len(me.prefix) + Len(me.separator)
       /\ SubSeq(id, 1, Len(me.prefix) + Len(me.separator)) = me.prefix \o me.separator
    THEN SubSeq(id, Len(me.prefix) + 2, Len(id))
    ELSE id

\* a generate() call returns an id in this step
Returns == pc # "idle" /\ pc' = "idle" /\ result'.kind = "id"

IssuedIds == {issued[i].id : i \in DOMAIN issued}

\* the id the instance returned for sequence value s before the behaviour began
BurstId(s) == BuildId(self, TimestampOf(burst.ts), s)

\* a and b are equal outside the clock sequence group (the four characters before
\* the last separator and the node)
SameButClockSeq(a, b) ==
    LET k == Len(a) - 12 - Len(self.separator) IN
    /\ Len(a) = Len(b)
    /\ SubSeq(a, 1, k - 4) = SubSeq(b, 1, k - 4)
    /\ SubSeq(a, k + 1, Len(a)) = SubSeq(b, k + 1, Len(b))

\* id is one of the ids returned before the behaviour began; those ids differ from
\* each other in the clock sequence group alone, which the first conjunct uses to
\* answer without going through them
InBurst(id) ==
    /\ burst.n > 0
    /\ SameButClockSeq(BurstId(0), id)
    /\ \E s \in 0..(burst.n - 1) : BurstId(s) = id

\* C1: while the clock has never moved backward, the id a generate() call returns
\* differs from every id the instance returned before, also within one millisecond
C1_DistinctUnderForwardClock ==
    [][(Returns /\ regressions = 0) =>
            ~(result'.id \in IssuedIds \/ InBurst(result'.id))]_vars

\* C2: an id generated after the clock moved backward differs from every id
\* generated before that regression
C2_DistinctAcrossRegression ==
    [][Returns =>
            /\ \A i \in DOMAIN issued :
                 issued[i].regressions < local.regressions => issued[i].id # result'.id
            /\ local.regressions > 0 => ~InBurst(result'.id)]_vars

\* C3: a call that reads a clock value below lastTimestamp adds one to clockSeq
\* (modulo 2^14), and no other step changes clockSeq
C3_ClockSeqCountsRegressions ==
    [][IF pc = "idle" /\ pc' # "idle" /\ LtN(clock, self.lastTimestamp)
       THEN self'.clockSeq = (self.clockSeq + 1) % (ClockSeqMask + 1)
       ELSE self'.clockSeq = self.clockSeq]_vars

\* the timestamp decoded from one of the instance's own ids
Decoded(id) == extractTimestamp(self, CleanId(self, id))

IsTime(d) == ~d.thrown /\ ~d.nan /\ ~d.neg

TimeLe(a, b) ==
    /\ IsTime(a) /\ IsTime(b)
    /\ LtN(a.ms, b.ms) \/ (a.ms = b.ms /\ a.frac <= b.frac)

\* the id returned just before the i-th id of the behaviour, NULL when there is none
Previous(i) ==
    IF i > 1 THEN issued[i - 1].id
    ELSE IF burst.n > 0 THEN BurstId(burst.n - 1) ELSE NULL

\* C4: of two consecutive ids, the second taken while the clock had never moved
\* backward, the second decodes to a timestamp no lower than the first (stated of
\* the id returned last, which every id of a behaviour once is)
C4_MonotoneTimestamps ==
    LET i == Len(issued) IN
    (i > 0 /\ issued[i].regressions = 0 /\ Previous(i) # NULL) =>
        TimeLe(Decoded(Previous(i)), Decoded(issued[i].id))

\* two consecutive ids under a forward clock, the second a millisecond later
C4_Witness ==
    /\ Len(issued) >= 2
    /\ issued[2].regressions = 0
    /\ IsTime(Decoded(issued[1].id)) /\ IsTime(Decoded(issued[2].id))
    /\ LtN(Decoded(issued[1].id).ms, Decoded(issued[2].id).ms)

\* the first character of the k-th group of a canonical id (k in 1..5)
GroupStart(k) == <<1, 9, 13, 17, 21>>[k] + (k - 1) * Len(self.separator)

\* C5: every id returned has version nibble 1 and variant bits 10
C5_VersionAndVariant ==
    \A i \in DOMAIN issued :
        LET c == CleanId(self, issued[i].id) IN
        /\ c[GroupStart(3)] = "1"
        /\ c[GroupStart(4)] \in {"8", "9", "a", "b"}

\* canonical text: lowercase hex groups of 8, 4, 4, 4 and 12 joined by sep
IsCanonical(c, sep) ==
    /\ Len(c) = 32 + 4 * Len(sep)
    /\ \A k \in 1..5 :
         LET from  == GroupStart(k)
             width == <<8, 4, 4, 4, 12>>[k]
         IN  /\ \A j \in from..(from + width - 1) : c[j] \in LowerHexChars
             /\ k < 5 => SubSeq(c, from + width, from + width + Len(sep) - 1) = sep

\* C6: every id returned is canonical text, behind prefix + separator when the
\* instance has a prefix
C6_CanonicalText ==
    \A i \in DOMAIN issued :
        LET id   == issued[i].id
            head == IF self.prefix = NULL THEN <<>> ELSE self.prefix \o self.separator
        IN  /\ Len(id) >= Len(head)
            /\ SubSeq(id, 1, Len(head)) = head
            /\ IsCanonical(SubSeq(id, Len(head) + 1, Len(id)), self.separator)

\* C7: on an instance without prefix, extractTimestamp of the id just returned is
\* exactly the millisecond value the sequencer recorded for the call
C7_TimestampRoundTrip ==
    (pc = "idle" /\ result.kind = "id" /\ self.prefix = NULL) =>
        LET d == extractTimestamp(self, result.id) IN
        IsTime(d) /\ d.ms = self.lastTimestamp /\ d.frac = 0

\* C8: a call throws when the clock reads less than the instance's validAfter or
\* more than its validBefore, and only then; otherwise it returns an id
C8_WindowEnforced ==
    [][/\ (pc = "validAfter" /\ pc' # pc) =>
            ((pc' = "idle" /\ result'.kind = "error") <=> LtN(clock, self.validAfter))
       /\ (pc = "validBefore" /\ pc' # pc) =>
            ((pc' = "idle" /\ result'.kind = "error") <=> LtN(self.validBefore, clock))
       /\ (pc = "metrics" /\ pc' \notin {"metrics", "validAfter"}) =>
            ~(self.validAfter # NULL /\ LtN(clock, self.validAfter))
       /\ Returns => ~(self.validBefore # NULL /\ LtN(self.validBefore, clock))]_vars

\* C9: a call rejected for the time window leaves lastTimestamp, sequenceCounter
\* and the metrics as they were when the call began
C9_RejectedCallChangesNothing ==
    (pc = "idle" /\ result.kind = "error") =>
        /\ self.lastTimestamp = entry.lastTimestamp
        /\ self.sequenceCounter = entry.sequenceCounter
        /\ self.metrics = entry.metrics

\* C10: generateBatch(count) of a pool resolves to exactly count ids
C10_PoolBatchHasCountIds ==
    job.state = "resolved" => Len(job.ids) = job.count

\* a resolved call whose count is more than one chunk and no multiple of batchSize
C10_Witness ==
    /\ job.state = "resolved"
    /\ job.count > pool.batchSize
    /\ job.count % pool.batchSize # 0
    /\ pool.workers > 1
    /\ Len(job.ids) = job.count

\* C11: the ids one generateBatch call of a pool resolves to are pairwise distinct
C11_PoolIdsDistinct ==
    job.state = "resolved" =>
        \A i, j \in DOMAIN job.ids : i # j => job.ids[i] # job.ids[j]

\* C12: the resolved array is made of ceil(count / batchSize) chunks in submission
\* order: its p-th id is the p-th id generated, by worker (i mod W) for chunk
\* i = (p - 1) div batchSize
C12_ChunksInSubmissionOrder ==
    job.state = "resolved" =>
        /\ Len(job.batches) = (job.count + pool.batchSize - 1) \div pool.batchSize
        /\ Len(job.ids) = Len(job.log)
        /\ \A p \in DOMAIN job.ids :
             LET i == (p - 1) \div pool.batchSize IN
             /\ job.ids[p] = job.log[p].id
             /\ job.log[p].chunk = i
             /\ job.log[p].worker = (i % pool.workers) + 1

\* three chunks over two workers: the third chunk goes to the first worker again
C12_Witness ==
    /\ job.state = "resolved"
    /\ pool.workers = 2
    /\ Len(job.batches) = 3
    /\ job.log[Len(job.log)].worker = 1
    /\ job.ids[Len(job.ids)] = job.log[Len(job.log)].id

\* the text validated last is an id the instance itself returned
OwnId == result.kind = "validation" /\ result.id \in IssuedIds /\ result.allowPrefix

\* C13: on an instance without time window, validate of an id the instance
\* generated reports valid = true and version 'uusid'
C13_OwnIdsValidate ==
    (OwnId /\ self.validAfter = NULL /\ self.validBefore = NULL) =>
        /\ ~result.outcome.thrown
        /\ result.outcome.value.valid
        /\ result.outcome.value.version = <<"uusid">>

\* the text validated last, as line 234 strips it when allowPrefix is set
Validated == IF result.allowPrefix THEN CleanId(self, result.id) ELSE result.id

\* the timestamp d lies outside the window the instance is configured with
OutsideWindow(d) ==
    \/ self.validAfter # NULL /\ Earlier(d, self.validAfter)
    \/ self.validBefore # NULL /\ LaterThan(d, self.validBefore)

\* C14: validate never throws; a text that is not of the five-group form, or whose
\* timestamp lies outside the instance's window, is reported invalid, and every
\* invalid result carries a reason
C14_ValidateReportsNeverRaises ==
    result.kind = "validation" =>
        LET o  == result.outcome
            ok == MatchesUuid(Validated, self.separator)
            d  == extractTimestamp(self, Validated)
        IN  /\ ~o.thrown
            /\ ~o.value.valid => "reason" \in DOMAIN o.value
            /\ ~ok => ~o.value.valid
            /\ (ok /\ ~d.thrown /\ OutsideWindow(d)) => ~o.value.valid

\* C15: validate reports valid only text whose version nibble is 1
C15_ValidateChecksVersion ==
    (result.kind = "validation" /\ ~result.outcome.thrown /\ result.outcome.value.valid) =>
        result.id[VersionAt(self, result.id)] = "1"

\* C16: a result that says valid carries version, timestamp, entropy,
\* collisionProbability and warnings
C16_ValidResultFields ==
    (result.kind = "validation" /\ ~result.outcome.thrown /\ result.outcome.value.valid) =>
        {"valid", "version", "timestamp", "entropy", "collisionProbability", "warnings"}
            \subseteq DOMAIN result.outcome.value

SameArguments(a, b) ==
    /\ a.content = b.content
    /\ Destructured(a.options) = Destructured(b.options)

\* C17: a fromContent call with the content, namespace and algorithm of a call
\* made when the instance was new returns the text that call returned, whatever
\* the clock reads and however many generate() calls were made in between; with
\* the same content and algorithm and a different namespace it returns a different
\* text. (Any two calls are each compared with the calls of the new instance.)
C17_ContentDeterminism ==
    (result.kind = "content" /\ derived.content # <<>>) =>
        LET a == derived.content[1]
            b == result
        IN  /\ SameArguments(a, b) => a.text = b.text
            /\ ( /\ a.content = b.content
                 /\ Destructured(a.options).algorithm = Destructured(b.options).algorithm
                 /\ Destructured(a.options).namespace # Destructured(b.options).namespace )
               => a.text # b.text

\* the first call's arguments again after a generate() call and a clock change
C17_Witness ==
    /\ result.kind = "content"
    /\ derived.content # <<>>
    /\ SameArguments(derived.content[1], result)
    /\ derived.content[1].options # <<>>
    /\ calls > 0
    /\ derived.content[1].clock # clock

\* the first call's content under another namespace
C17_OtherNamespace ==
    /\ result.kind = "content"
    /\ derived.content # <<>>
    /\ derived.content[1].content = result.content
    /\ derived.content[1].options = [namespace |-> Files]
    /\ result.options = [namespace |-> <<"f", "i", "l", "e">>]

\* the envelopes made so far that encryptedData is
MadeAs(encryptedData) ==
    {derived.sealed[i] : i \in {j \in 1..Len(derived.sealed) :
                                  derived.sealed[j].envelope = encryptedData}}

\* C18: on an instance with a non-empty secret key, encrypt of a canonical id
\* returns an envelope, and decrypt of an envelope the instance made returns the
\* id that was encrypted, a canonical five-group id; so for the envelopes of
\* EncryptedGenerator.generate().
C18_EncryptionRoundTrip ==
    /\ (result.kind = "envelope" /\ self.secretKey # NULL) => ~result.outcome.thrown
    /\ (result.kind = "decrypted" /\ result.secretKey = self.secretKey) =>
          \A e \in MadeAs(result.encryptedData) :
              /\ ~result.outcome.thrown
              /\ result.outcome.value = e.data
              /\ MatchesUuid(result.outcome.value, Dash)

\* characters ':' in a text
Colons(text) == Len(SelectSeq(text, LAMBDA c : c = ":"))

\* C19: decrypt with a secret key other than the one the envelope was made with,
\* and decrypt of a text that does not hold exactly one ':', throw; no text is
\* returned, the plaintext least of all.
C19_DecryptFailureIsAnError ==
    result.kind = "decrypted" =>
        /\ Colons(result.encryptedData) # 1 => result.outcome.thrown
        /\ \A e \in MadeAs(result.encryptedData) :
              result.secretKey # e.secretKey => result.outcome.thrown


\* C20: for a hierarchical id h of at least three segments, the id c that
\* hierarchical({ parent: h }) returned is h, a dot and one new segment of 10
\* characters, and parseHierarchy(c) reports the depth of h plus one and the
\* parent h; an id that k such calls led to from a root of three segments parses
\* to depth k.
C20_ChildIsOneLevelDeeper ==
    (result.kind = "hierarchy" /\ derived.tree[1].parent # NULL) =>
        LET c == derived.tree[1]
            h == c.parent
        IN  Len(Split(h, ".")) >= 3 =>
              /\ Split(c.id, ".") = Split(h, ".") \o <<SubSeq(c.id, Len(c.id) - 9, Len(c.id))>>
              /\ result.info.depth = parseHierarchy(h, <<>>).depth + 1
              /\ result.info.parent = h
              /\ Len(Split(c.root, ".")) = 3 => result.info.depth = c.children


\* the five bits of each symbol, first symbol first
RECURSIVE BitsOf(_)
BitsOf(symbols) ==
    IF symbols = <<>> THEN <<>>
    ELSE LET v == (CHOOSE k \in 1..32 : alphabet[k] = symbols[1]) - 1
         IN  <<(v \div 16) % 2, (v \div 8) % 2, (v \div 4) % 2, (v \div 2) % 2, v % 2>>
             \o BitsOf(Tail(symbols))

\* the bit stream taken eight bits at a time, what is left of it after the last
\* whole byte dropped
Rechunked(bitstream) ==
    [i \in 1..(Len(bitstream) \div 8) |->
        LET b == SubSeq(bitstream, 8 * i - 7, 8 * i)
        IN  128 * b[1] + 64 * b[2] + 32 * b[3] + 16 * b[4] + 8 * b[5] + 4 * b[6] + 2 * b[7] + b[8]]

\* C21: toBase32 of the 16 bytes of a canonical id is 26 symbols of A-Z2-7; the
\* symbols are the bit stream five bits at a time, the last group filled with
\* zeros, so that their bits taken eight at a time are the 16 bytes again.
C21_Base32RoundTrip ==
    (result.kind = "base32" /\ Len(result.buffer) = 16) =>
        /\ Len(result.text) = 26
        /\ \A i \in 1..Len(result.text) : \E k \in 1..32 : alphabet[k] = result.text[i]
        /\ LET bitstream == BitsOf(result.text)
           IN  /\ Rechunked(bitstream) = result.buffer
               /\ SubSeq(bitstream, 129, Len(bitstream)) = <<0, 0>>

\* a base32() call on an instance without prefix whose buffer ends in a byte with
\* its low bits set, so that the last group is filled up
C21_Witness ==
    /\ result.kind = "base32"
    /\ Len(result.buffer) = 16
    /\ result.buffer[16] = 255
    /\ result.text[26] = "4"

\* a text holds no separator
Unseparated(text, sep) ==
    \A i \in 1..(Len(text) - Len(sep) + 1) : SubSeq(text, i, i + Len(sep) - 1) # sep

\* C22: compact() and urlSafe() return the 32 hex characters of the id generated
\* for the call, without separator; urlSafe() in lower case.
C22_CompactAndUrlSafe ==
    result.kind \in {"compact", "urlSafe"} =>
        /\ Len(result.text) = 32
        /\ \A i \in 1..Len(result.text) : HexVal(result.text[i]) >= 0
        /\ Unseparated(result.text, self.separator)
        /\ result.kind = "urlSafe" =>
              \A i \in 1..Len(result.text) : \A k \in 1..6 : result.text[i] # UpperHex[k]


\* C23: analyze reports total = the array's length, uniqueIds = the number of
\* distinct entries, duplicates = total - uniqueIds and valid + invalid =
\* uniqueIds, valid the number of distinct entries validate reports valid; for
\* the batch the instance generated, duplicates = 0 and uniqueIds = total.
C23_AnalyzeCounts ==
    result.kind = "analysis" =>
        LET a        == result.analysis
            distinct == {result.idArray[i] : i \in 1..Len(result.idArray)}
        IN  /\ a.total = Len(result.idArray)
            /\ a.uniqueIds = Cardinality(distinct)
            /\ a.duplicates = a.total - a.uniqueIds
            /\ a.valid + a.invalid = a.uniqueIds
            /\ a.valid = Cardinality({id \in distinct : validate(self, id, TRUE).value.valid})
            /\ result.idArray = Batch => (a.duplicates = 0 /\ a.uniqueIds = a.total)


\* the node group of an id without prefix
NodeGroup(id) == SubSeq(id, Len(id) - 11, Len(id))

\* C24: two generators made with the same explicit nodeId and clockSeq, 0
\* included, and fed the same clock readings have returned the same ids; each was
\* made with the clockSeq given, and the node group of every id is the nodeId.
C24_ExplicitIdentity ==
    derived.twin # <<>> =>
        LET twin == derived.twin[1] IN
        /\ twin.ids = [i \in 1..Len(issued) |-> issued[i].id]
        /\ issued = <<>> => (self.clockSeq = twin.options.clockSeq
                             /\ twin.self.clockSeq = twin.options.clockSeq)
        /\ \A i \in 1..Len(twin.ids) :
              /\ NodeGroup(twin.ids[i]) = twin.options.nodeId
              /\ NodeGroup(issued[i].id) = twin.options.nodeId

\* C29: the ids that calls of uusid with the same options returned are pairwise
\* distinct, and so the ids of the calls without options.
C29_UusidDistinct ==
    \A i \in 1..Len(derived.uusid), j \in 1..Len(derived.uusid) :
        (i < j /\ derived.uusid[i].options = derived.uusid[j].options)
            => derived.uusid[i].id # derived.uusid[j].id


\* C25: the sequence an id is encoded with lies in 0..65535. A call that finds
\* the counter at 65535 in the millisecond of lastTimestamp waits; the wait ends
\* only on a clock reading other than lastTimestamp, and the call goes on with
\* sequenceCounter 0 and lastTimestamp the reading of the clock taken then.
C25_SequenceStaysInRange ==
    [][/\ Returns => (local.sequence \in 0..MaxSequence /\ self'.sequenceCounter = local.sequence)
       /\ (pc = "idle" /\ pc' # "idle") =>
             (pc' = "wait" <=> (clock = self.lastTimestamp /\ self.sequenceCounter = MaxSequence))
       /\ (pc = "wait" /\ pc' # "wait") => (pc' = "restart" /\ clock # self.lastTimestamp)
       /\ (pc = "restart" /\ pc' # "restart") =>
             /\ self'.sequenceCounter = 0
             /\ self'.lastTimestamp = clock
             /\ local'.sequence = 0]_vars

\* a call that found the counter full has returned an id
C25_Witness ==
    /\ pc = "idle"
    /\ result.kind = "id"
    /\ entry.sequenceCounter = MaxSequence
    /\ self.sequenceCounter = 0
    /\ self.lastTimestamp # entry.lastTimestamp


\* C26: every generate() call that has begun ends, and a call in the overflow
\* wait whose clock reading is no longer lastTimestamp leaves the wait, unless
\* the clock comes back to lastTimestamp before it is read.
C26_GenerateReturns ==
    /\ (pc # "idle") ~> (pc = "idle")
    /\ (pc = "wait" /\ clock # self.lastTimestamp)
          ~> (pc = "restart" \/ (pc = "wait" /\ clock = self.lastTimestamp))

\* a call that waited for the clock has returned an id
C26_Witness ==
    /\ pc = "idle"
    /\ result.kind = "id"
    /\ entry.sequenceCounter = MaxSequence
    /\ entry.lastTimestamp = Era2026
    /\ LtN(Era2026, self.lastTimestamp)


\* C27: updateMetrics leaves in rateSamples the reading it pushed, as the last
\* sample, and no sample that is not later than that reading minus 10000;
\* nothing else in generate() touches the metrics; peakRate is at least
\* currentRate in every state and no step lowers it.
C27_RateSamplesPruned ==
    [][/\ (pc = "metrics" /\ pc' # "metrics") =>
              LET samples == self'.metrics.rateSamples IN
              /\ samples # <<>>
              /\ samples[Len(samples)].t = clock
              /\ \A i \in 1..Len(samples) : LtN(clock, AddN(samples[i].t, Small(RateWindowMs)))
       /\ pc # "metrics" => self'.metrics = self.metrics
       /\ self.metrics.peakRate >= self.metrics.currentRate
       /\ self'.metrics.peakRate >= self'.metrics.currentRate
       /\ self'.metrics.peakRate >= self.metrics.peakRate]_vars

\* a call has returned after its updateMetrics dropped a sample and kept an older one
C27_Witness ==
    /\ pc = "idle"
    /\ result.kind = "id"
    /\ Len(self.metrics.rateSamples) > 1
    /\ SampleCount(self.metrics.rateSamples) < self.metrics.totalGenerated
    /\ self.metrics.peakRate > self.metrics.currentRate


\* the instance has a window, and t is a time of the clock inside it
HasWindow == Truthy(self.validAfter) \/ Truthy(self.validBefore)

InsideWindow(t) ==
    /\ Truthy(self.validAfter) => ~LtN(t, self.validAfter)
    /\ Truthy(self.validBefore) => ~LtN(self.validBefore, t)

\* C28: on an instance with a window, the millisecond an id returned by
\* generate() embeds lies inside the window, and validate of the id returned
\* last reports neither 'Before valid range' nor 'After valid range'
C28_WindowedIdsInsideWindow ==
    /\ (HasWindow /\ pc = "idle" /\ result.kind = "id") => InsideWindow(self.lastTimestamp)
    /\ (HasWindow /\ result.kind = "validation" /\ issued # <<>>
           /\ result.id = issued[Len(issued)].id /\ ~result.outcome.thrown
           /\ "reason" \in DOMAIN result.outcome.value) =>
          result.outcome.value.reason \notin {"Before valid range", "After valid range"}


\* C30: two fromContent calls with one algorithm and different (namespace,
\* content) pairs return different texts. (Any call is compared with the call
\* made when the instance was new.)
C30_NamespaceKeptApart ==
    (result.kind = "content" /\ derived.content # <<>>) =>
        LET a == derived.content[1]
            b == result
        IN  ( /\ Destructured(a.options).algorithm = Destructured(b.options).algorithm
              /\ <<Destructured(a.options).namespace, a.content>>
                    # <<Destructured(b.options).namespace, b.content>> )
            => a.text # b.text


====
